---- MODULE Spec2Model ----
(***************************************************************************)
(* PDF ingestion pipeline of src/src/pdf_processor.py (class PDFProcessor) *)
(* as a state machine: upload_pdf, process_pdf with its stages, the page   *)
(* tasks of extract_text, the processing-status table and the metadata     *)
(* map with its persisted copy.                                            *)
(***************************************************************************)
EXTENDS Integers, Sequences, FiniteSets, TLC

VARIABLES
    metadata,           \* self.metadata: document_id -> record (a dict)
    disk,               \* contents of metadata.json as last written
    stored,             \* files under UPLOAD_DIR: document_id -> PDF file
    processing_status,  \* self.processing_status: document_id -> entry
    run,                \* one record per calling thread of process_pdf
    collections,        \* the Chroma collections: document_id -> chunks of
                        \* pdf_<document_id>
    polled,             \* what a poller holds from its last get_processing_status
    ret,                \* the value a call hands back in the step that ends it
    calls               \* number of upload_pdf / process_pdf calls made

vars ==
    <<metadata, disk, stored, collections, processing_status, polled, run, ret,
      calls>>

\* ------------------------------------------------------------------ bounds
MaxPages == 3
MaxCalls == 3

\* ------------------------------------------------- configuration (config.py)
MAX_PDF_PAGES == 4
CHUNK_SIZE == 4
CHUNK_OVERLAP == 1
max_workers == 4

DocIds == {"d1", "d2"}
Threads == {1, 2, 3}

\* ------------------------------------------------------------ text helpers
\* str.strip(): leading and trailing whitespace removed.
RECURSIVE LStrip(_)
LStrip(s) == IF s # <<>> /\ Head(s) = " " THEN LStrip(Tail(s)) ELSE s

RECURSIVE RStrip(_)
RStrip(s) ==
    IF s # <<>> /\ s[Len(s)] = " " THEN RStrip(SubSeq(s, 1, Len(s) - 1)) ELSE s

Strip(s) == RStrip(LStrip(s))

\* ---------------------------------------------------------------- PDF files
\* A page of a PDF: page.extract_text() either raises or returns its text.
PageThrows == [raises |-> TRUE, text |-> <<>>]
PageBlank == [raises |-> FALSE, text |-> <<" ">>]
PageText == [raises |-> FALSE, text |-> <<" ", "b", "c", "d", "e", "f", " ">>]

\* The files offered to upload_pdf: PDFs of up to two pages, for each length
\* the three rotations of (text, raising, blank), so that every kind of page
\* occurs at every position; one PDF over the limit; a missing file, a file
\* that is not named *.pdf and a file PdfReader cannot parse.
PageCycle == <<PageText, PageThrows, PageBlank>>

PagesOfLen(n) == {[i \in 1..n |-> PageCycle[((i + k) % 3) + 1]] : k \in 0..2}

\* A file: whether the path exists, its name (a sequence of characters),
\* whether PdfReader can parse it, and its pages.
PdfName == <<"a", ".", "p", "d", "f">>
TxtName == <<"a", ".", "t", "x", "t">>

Pdf(pages) == [exists |-> TRUE, name |-> PdfName, parses |-> TRUE, pages |-> pages]

ValidPdfs == {Pdf(p) : p \in UNION {PagesOfLen(n) : n \in 0..2}}

InvalidFiles ==
    {[exists |-> TRUE, name |-> PdfName, parses |-> TRUE,
      pages |-> [i \in 1..(MAX_PDF_PAGES + 1) |-> PageBlank]],
     [exists |-> FALSE, name |-> PdfName, parses |-> TRUE, pages |-> <<>>],
     [exists |-> TRUE, name |-> TxtName, parses |-> TRUE, pages |-> <<>>],
     [exists |-> TRUE, name |-> PdfName, parses |-> FALSE, pages |-> <<>>]}

SourceFiles == ValidPdfs \cup InvalidFiles

RECURSIVE FileSize(_)
FileSize(pages) ==
    IF pages = <<>> THEN 0 ELSE Len(Head(pages).text) + FileSize(Tail(pages))

\* ----------------------------------------------------------- dict helpers
\* d[key] = value on a dict held as a function.
DictSet(d, key, value) == (key :> value) @@ d

DictDel(d, key) == [k \in DOMAIN d \ {key} |-> d[k]]

EmptyDict == [k \in {} |-> 0]

\* ------------------------------------------------------------ validate_pdf
PageLimitError(num_pages) ==
    "PDF has " \o ToString(num_pages) \o " pages, exceeds maximum of "
        \o ToString(MAX_PDF_PAGES)

\* str.lower() on the characters used in file names.
lower_char(c) ==
    CASE c = "P" -> "p"
      [] c = "D" -> "d"
      [] c = "F" -> "f"
      [] c = "A" -> "a"
      [] OTHER -> c

lower(name) == [i \in 1..Len(name) |-> lower_char(name[i])]

\* str.endswith(suffix).
endswith(name, suffix) ==
    /\ Len(name) >= Len(suffix)
    /\ SubSeq(name, Len(name) - Len(suffix) + 1, Len(name)) = suffix

\* Variant that rejects a PDF of exactly MAX_PDF_PAGES pages.
validate_pdf_rejects_limit(file) ==
    IF ~file.exists THEN [valid |-> FALSE, error |-> "File not found"]
    ELSE IF ~endswith(lower(file.name), <<".", "p", "d", "f">>)
        THEN [valid |-> FALSE, error |-> "File is not a PDF"]
    ELSE IF ~file.parses THEN [valid |-> FALSE, error |-> "EOF marker not found"]
    ELSE IF Len(file.pages) >= MAX_PDF_PAGES
        THEN [valid |-> FALSE, error |-> PageLimitError(Len(file.pages))]
    ELSE [valid |-> TRUE, num_pages |-> Len(file.pages),
          file_size |-> FileSize(file.pages), file_hash |-> file.pages]

\* The checks in their order: existence, extension, PdfReader (whose
\* exception is returned as the error), page count; then size and hash.
validate_pdf(file) ==
    IF ~file.exists THEN [valid |-> FALSE, error |-> "File not found"]
    ELSE IF ~endswith(lower(file.name), <<".", "p", "d", "f">>)
        THEN [valid |-> FALSE, error |-> "File is not a PDF"]
    ELSE IF ~file.parses THEN [valid |-> FALSE, error |-> "EOF marker not found"]
    ELSE IF Len(file.pages) > MAX_PDF_PAGES
        THEN [valid |-> FALSE, error |-> PageLimitError(Len(file.pages))]
    ELSE [valid |-> TRUE, num_pages |-> Len(file.pages),
          file_size |-> FileSize(file.pages), file_hash |-> file.pages]

\* ------------------------------------------------------- _extract_page_text
\* Variant without the try/except: the page's exception reaches the future.
extract_page_text_unguarded(page_num, page) ==
    IF page.raises
        THEN [raised |-> TRUE, page_num |-> page_num, text |-> <<>>]
        ELSE [raised |-> FALSE, page_num |-> page_num,
              text |-> IF page.text # <<>> THEN Strip(page.text) ELSE <<>>]

\* Runs in a worker thread: (page_num, text), "" when the page raises or
\* yields no text.  page_num is the 0-based index of enumerate(reader.pages).
extract_page_text(page_num, page) ==
    IF page.raises
        THEN [raised |-> FALSE, page_num |-> page_num, text |-> <<>>]
        ELSE [raised |-> FALSE, page_num |-> page_num,
              text |-> IF page.text # <<>> THEN Strip(page.text) ELSE <<>>]

\* ---------------------------------------------------------- chunk_documents
\* RecursiveCharacterTextSplitter(chunk_size, chunk_overlap, length_function
\* = len) with its defaults: separators "\n\n", "\n", " ", "", the separator
\* kept at the start of the piece that follows it, chunks stripped of
\* surrounding whitespace.  The texts modelled have no newline, so the first
\* separator that can occur in them is " ".
RECURSIVE Join(_)
Join(splits) ==
    IF splits = <<>> THEN <<>> ELSE Head(splits) \o Join(Tail(splits))

\* _join_docs: the pieces joined and stripped; nothing when that is empty.
join_docs(current_doc) ==
    LET text == Strip(Join(current_doc))
    IN  IF text = <<>> THEN <<>> ELSE <<text>>

\* Variant that keeps nothing of the chunk just emitted.
drop_front_all(current_doc, next_len) == <<>>

\* _merge_splits, the loop that drops pieces from the front of current_doc
\* after a chunk was emitted: it stops at the first point where what is kept
\* is no longer than chunk_overlap and leaves room for the next piece.
drop_front(current_doc, next_len) ==
    LET kept(n) == SubSeq(current_doc, n + 1, Len(current_doc))
        total(n) == Len(Join(kept(n)))
        goes_on(n) ==
            total(n) > CHUNK_OVERLAP \/ (total(n) + next_len > CHUNK_SIZE /\ total(n) > 0)
        dropped == CHOOSE n \in 0..Len(current_doc) :
                        ~goes_on(n) /\ \A m \in 0..(n - 1) : goes_on(m)
    IN  kept(dropped)

\* _merge_splits from piece i on, with the pieces gathered so far.
RECURSIVE merge_from(_, _, _)
merge_from(splits, i, current_doc) ==
    IF i > Len(splits) THEN join_docs(current_doc)
    ELSE LET d == splits[i]
             total == Len(Join(current_doc))
         IN  IF total + Len(d) > CHUNK_SIZE /\ current_doc # <<>>
                THEN join_docs(current_doc)
                        \o merge_from(splits, i + 1,
                                      Append(drop_front(current_doc, Len(d)), d))
                ELSE merge_from(splits, i + 1, Append(current_doc, d))

merge_splits(splits) == merge_from(splits, 1, <<>>)

\* _split_text_with_regex with separator "": the characters.
split_chars(text) == [i \in 1..Len(text) |-> <<text[i]>>]

\* _split_text_with_regex with separator " ", kept: a piece starts at the
\* first character and at every space.
split_spaces(text) ==
    LET starts == {1} \cup {i \in 1..Len(text) : text[i] = " "}
        start(k) == CHOOSE a \in starts : Cardinality({x \in starts : x < a}) = k - 1
        stop(k) == IF k = Cardinality(starts) THEN Len(text) ELSE start(k + 1) - 1
    IN  [k \in 1..Cardinality(starts) |-> SubSeq(text, start(k), stop(k))]

\* _split_text at the level of separator " ", from piece i on: pieces
\* shorter than chunk_size are gathered and merged; a longer piece is split
\* again with the remaining separator "", into characters, and merged on
\* its own.
RECURSIVE split_pieces(_, _, _)
split_pieces(splits, i, good_splits) ==
    IF i > Len(splits) THEN merge_splits(good_splits)
    ELSE IF Len(splits[i]) < CHUNK_SIZE
            THEN split_pieces(splits, i + 1, Append(good_splits, splits[i]))
            ELSE merge_splits(good_splits)
                    \o merge_splits(split_chars(splits[i]))
                    \o split_pieces(splits, i + 1, <<>>)

\* split_text: the first separator found in the text decides the level.
split_text(text) ==
    IF text = <<>> THEN <<>>
    ELSE IF \E i \in 1..Len(text) : text[i] = " "
            THEN split_pieces(split_spaces(text), 1, <<>>)
            ELSE merge_splits(split_chars(text))

\* Variant that keeps the 0-based index of enumerate as page_number.
split_page_zero_based(page_text, document_id, page_number) ==
    LET parts == split_text(page_text)
    IN  [k \in 1..Len(parts) |->
            [page_content |-> parts[k], document_id |-> document_id,
             page_number |-> page_number - 1, source |-> "pdf"]]

\* One Document per chunk of a page, each with a copy of the page's metadata.
split_page(page_text, document_id, page_number) ==
    LET parts == split_text(page_text)
    IN  [k \in 1..Len(parts) |->
            [page_content |-> parts[k], document_id |-> document_id,
             page_number |-> page_number, source |-> "pdf"]]

RECURSIVE chunk_from(_, _, _)
chunk_from(pages_text, document_id, page_num) ==
    IF page_num >= Len(pages_text) THEN <<>>
    ELSE LET page_text == pages_text[page_num + 1]
             rest == chunk_from(pages_text, document_id, page_num + 1)
         IN  IF Strip(page_text) # <<>>
                THEN split_page(page_text, document_id, page_num + 1) \o rest
                ELSE rest

\* Variant that returns the chunks last first.
chunk_documents_reversed(pages_text, document_id) ==
    LET chunked_docs == chunk_from(pages_text, document_id, 0)
    IN  [k \in 1..Len(chunked_docs) |-> chunked_docs[Len(chunked_docs) + 1 - k]]

\* chunk_documents: the pages in order, each split on its own.
chunk_documents(pages_text, document_id) == chunk_from(pages_text, document_id, 0)

\* ------------------------------------------------------------------- state
StatusEntry(stage, progress, total) ==
    [stage |-> stage, progress |-> progress, total |-> total]

NoValue == [none |-> TRUE]
NoResult == [op |-> "", document_id |-> "", raised |-> FALSE, value |-> NoValue]
Returned(op, document_id, value) ==
    [op |-> op, document_id |-> document_id, raised |-> FALSE, value |-> value]
Raised(op, document_id, message) ==
    [op |-> op, document_id |-> document_id, raised |-> TRUE,
     value |-> [exception |-> message]]

\* The poller's variable after status = get_processing_status(document_id):
\* a reference to the entry dict that the table holds under document_id
\* (live), or a dict the table no longer holds, or None.
\* locked: the poller is inside `with self.status_lock` of
\* get_processing_status.
NoPoll ==
    [held |-> FALSE, live |-> FALSE, locked |-> FALSE, document_id |-> "",
     entry |-> NoValue]

\* What the poller reads through its variable.
PolledValue ==
    IF polled.live THEN processing_status[polled.document_id] ELSE polled.entry

\* The table stops holding the dict it held under document_id: a poller's
\* reference to that dict keeps it as it was last.
Dropped(document_id) ==
    IF polled.live /\ polled.document_id = document_id
        THEN [polled EXCEPT !.live = FALSE,
                            !.entry = processing_status[document_id]]
        ELSE polled

\* self.processing_status[document_id] = {...}: a new dict.
SetStatus(document_id, entry) ==
    /\ ~polled.locked
    /\ processing_status' = DictSet(processing_status, document_id, entry)
    /\ polled' = Dropped(document_id)

\* del self.processing_status[document_id].
DelStatus(document_id) ==
    /\ ~polled.locked
    /\ processing_status' = DictDel(processing_status, document_id)
    /\ polled' = Dropped(document_id)

IdleRun ==
    [pc |-> "idle", document_id |-> "", num_pages |-> 0, reader |-> <<>>,
     tasks |-> <<>>, futures |-> <<>>, pages_text |-> <<>>, completed |-> 0,
     chunked_docs |-> <<>>, exc |-> ""]

\* PDFProcessor.__init__ with no metadata.json on disk.
Init ==
    /\ metadata = EmptyDict
    /\ disk = EmptyDict
    /\ stored = EmptyDict
    /\ collections = EmptyDict
    /\ processing_status = EmptyDict
    /\ polled = NoPoll
    /\ run = [t \in Threads |-> IdleRun]
    /\ ret = NoResult
    /\ calls = 0

\* self.processing_status.get(document_id) under status_lock.
get_processing_status(document_id) ==
    IF document_id \in DOMAIN processing_status
        THEN processing_status[document_id]
        ELSE NoValue

InFlight(t) == run[t].pc # "idle"

\* -------------------------------------------------------------- upload_pdf
UploadRecord(validation, document_id) ==
    [file_path |-> "uploads/" \o document_id \o ".pdf",
     num_pages |-> validation.num_pages,
     file_size |-> validation.file_size,
     file_hash |-> validation.file_hash,
     status |-> "uploaded",
     processed |-> FALSE]

UploadResult(validation, document_id) ==
    [success |-> TRUE, document_id |-> document_id,
     num_pages |-> validation.num_pages,
     message |-> "PDF uploaded successfully"]

\* The file fails validation: the validation dict itself is handed back.
upload_pdf_invalid(document_id, file) ==
    /\ ~validate_pdf(file).valid
    /\ ret' = Returned("upload_pdf", document_id, validate_pdf(file))
    /\ UNCHANGED <<metadata, disk, stored, collections, polled, processing_status, run>>

\* shutil.copy2 raises: nothing is stored, the exception leaves upload_pdf.
upload_pdf_copy_fails(document_id, file) ==
    /\ validate_pdf(file).valid
    /\ ret' = Raised("upload_pdf", document_id, "copy failed")
    /\ UNCHANGED <<metadata, disk, stored, collections, polled, processing_status, run>>

\* Variant that updates an existing record in place, keeping its other keys.
upload_pdf_store_updates(document_id, file, save_ok) ==
    /\ validate_pdf(file).valid
    /\ stored' = DictSet(stored, document_id, file)
    /\ metadata' = DictSet(metadata, document_id,
                           IF document_id \in DOMAIN metadata
                              THEN UploadRecord(validate_pdf(file), document_id)
                                        @@ metadata[document_id]
                              ELSE UploadRecord(validate_pdf(file), document_id))
    /\ IF save_ok
          THEN /\ disk' = metadata'
               /\ ret' = Returned("upload_pdf", document_id,
                                 UploadResult(validate_pdf(file), document_id))
          ELSE /\ disk' = disk
               /\ ret' = Raised("upload_pdf", document_id, "save failed")
    /\ UNCHANGED <<collections, polled, processing_status, run>>

\* The file is copied and the record stored; _save_metadata writes the whole
\* map or raises after the in-memory map has been changed.
upload_pdf_store(document_id, file, save_ok) ==
    /\ validate_pdf(file).valid
    /\ stored' = DictSet(stored, document_id, file)
    /\ metadata' = DictSet(metadata, document_id,
                           UploadRecord(validate_pdf(file), document_id))
    /\ IF save_ok
          THEN /\ disk' = metadata'
               /\ ret' = Returned("upload_pdf", document_id,
                                 UploadResult(validate_pdf(file), document_id))
          ELSE /\ disk' = disk
               /\ ret' = Raised("upload_pdf", document_id, "save failed")
    /\ UNCHANGED <<collections, polled, processing_status, run>>

\* ------------------------------------------- POST /api/upload (web_server)
\* The path UPLOAD_DIR/<document_id>.pdf as characters.
UploadName(document_id) ==
    (IF document_id = "d1" THEN <<"d", "1">> ELSE <<"d", "2">>)
        \o <<".", "p", "d", "f">>

\* The request body once written to UPLOAD_DIR/<document_id>.pdf.
Written(document_id, body) ==
    [exists |-> TRUE, name |-> UploadName(document_id),
     parses |-> body.parses, pages |-> body.pages]

HTTPError(document_id, status_code, detail) ==
    [op |-> "api_upload", document_id |-> document_id, raised |-> TRUE,
     value |-> [status_code |-> status_code, detail |-> detail]]

\* open(file_path, "wb") raises: nothing is written, HTTP 500.
api_upload_write_fails(document_id) ==
    /\ ret' = HTTPError(document_id, 500, "cannot write upload")
    /\ UNCHANGED <<metadata, disk, stored, collections, polled, processing_status, run>>

\* The endpoint writes the body to UPLOAD_DIR/<document_id>.pdf and then
\* calls upload_pdf on that path (no copy: source and destination are the
\* same).  A failed validation raises HTTPException(400) inside the try,
\* which the except Exception clause turns into HTTP 500.
api_upload(document_id, body, save_ok) ==
    LET file == Written(document_id, body)
        validation == validate_pdf(file)
    IN
    /\ stored' = DictSet(stored, document_id, file)
    /\ IF ~validation.valid
          THEN /\ ret' = HTTPError(document_id, 500, "400: " \o validation.error)
               /\ UNCHANGED <<metadata, disk>>
          ELSE /\ metadata' = DictSet(metadata, document_id,
                                      UploadRecord(validation, document_id))
               /\ IF save_ok
                     THEN /\ disk' = metadata'
                          /\ ret' = Returned("api_upload", document_id,
                                            UploadResult(validation, document_id))
                     ELSE /\ disk' = disk
                          /\ ret' = HTTPError(document_id, 500, "save failed")
    /\ UNCHANGED <<collections, polled, processing_status, run>>

\* ------------------------------------------------------------- process_pdf
SetRun(t, r) == run' = [run EXCEPT ![t] = r]

\* The call ends: the thread is free again and the value is handed back.
Finish(t, result) == SetRun(t, IdleRun) /\ ret' = result

\* The pool hands a call to its first free thread.
CanCall(t) == run[t].pc = "idle" /\ \A u \in Threads : u < t => run[u].pc # "idle"

\* Variant that initialises the status entry before the existence check.
process_pdf_not_found_entry(t, document_id) ==
    /\ CanCall(t)
    /\ document_id \notin DOMAIN metadata
    /\ SetStatus(document_id, StatusEntry("starting", 0, 100))
    /\ Finish(t, Returned("process_pdf", document_id,
                           [success |-> FALSE, error |-> "Document not found"]))
    /\ UNCHANGED <<metadata, disk, stored, collections>>

\* document_id is not in self.metadata: the early return.
process_pdf_not_found(t, document_id) ==
    /\ CanCall(t)
    /\ document_id \notin DOMAIN metadata
    /\ Finish(t, Returned("process_pdf", document_id,
                           [success |-> FALSE, error |-> "Document not found"]))
    /\ UNCHANGED <<metadata, disk, stored, collections, polled, processing_status>>

\* Variant that puts the record back to "uploaded" when a run starts.
process_pdf_start_resets(t, document_id) ==
    /\ CanCall(t)
    /\ document_id \in DOMAIN metadata
    /\ SetStatus(document_id, StatusEntry("starting", 0, 100))
    /\ SetRun(t, [IdleRun EXCEPT !.pc = "extract",
                                 !.document_id = document_id,
                                 !.num_pages = metadata[document_id].num_pages])
    /\ metadata' = [metadata EXCEPT ![document_id] =
                        DictSet(metadata[document_id], "status", "uploaded")]
    /\ ret' = NoResult
    /\ UNCHANGED <<disk, stored, collections>>

\* doc_meta is read and the "starting" entry written.
process_pdf_start(t, document_id) ==
    /\ CanCall(t)
    /\ document_id \in DOMAIN metadata
    /\ SetStatus(document_id, StatusEntry("starting", 0, 100))
    /\ SetRun(t, [IdleRun EXCEPT !.pc = "extract",
                                 !.document_id = document_id,
                                 !.num_pages = metadata[document_id].num_pages])
    /\ ret' = NoResult
    /\ UNCHANGED <<metadata, disk, stored, collections>>

\* ThreadPoolExecutor: the tasks are started in submission order, as many at
\* a time as the pool has workers.
\* Variant with a pool that starts every submitted task at once.
StartQueued_Unbounded(tasks) ==
    [i \in 1..Len(tasks) |-> IF tasks[i] = "queued" THEN "running" ELSE tasks[i]]

\* ThreadPoolExecutor(max_workers): queued tasks are started in submission
\* order while fewer than max_workers are running.
StartQueued(tasks) ==
    LET running == {i \in 1..Len(tasks) : tasks[i] = "running"}
        queued == {i \in 1..Len(tasks) : tasks[i] = "queued"}
        free == max_workers - Cardinality(running)
    IN  [i \in 1..Len(tasks) |->
            IF tasks[i] = "queued"
               /\ Cardinality({j \in queued : j < i}) < free
                THEN "running" ELSE tasks[i]]

\* extract_text: PdfReader(file_path) raises, caught and re-raised into
\* process_pdf's handler.
extract_text_open_fails(t) ==
    /\ run[t].pc = "extract"
    /\ SetRun(t, [run[t] EXCEPT !.pc = "except", !.exc = "cannot open PDF"])
    /\ ret' = NoResult
    /\ UNCHANGED <<metadata, disk, stored, collections, polled, processing_status>>

\* extract_text: PdfReader(file_path) opens the PDF, the pages are counted
\* and the result slots allocated (lines 128-130).
extract_text_open(t) ==
    LET document_id == run[t].document_id IN
    /\ run[t].pc = "extract"
    /\ document_id \in DOMAIN stored
    /\ stored[document_id].parses
    /\ LET pages == stored[document_id].pages
           num_pages == Len(pages)
       IN  SetRun(t, [run[t] EXCEPT
                    !.pc = "opened",
                    !.reader = pages,
                    !.pages_text = [i \in 1..num_pages |-> <<>>],
                    !.completed = 0])
    /\ ret' = NoResult
    /\ UNCHANGED <<metadata, disk, stored, collections, polled, processing_status>>

\* Variant that submits the page tasks and leaves the entry as it is.
extract_text_submit_unannounced(t) ==
    LET num_pages == Len(run[t].reader) IN
    /\ run[t].pc = "opened"
    /\ SetRun(t, [run[t] EXCEPT
            !.pc = "extracting",
            !.tasks = StartQueued([i \in 1..num_pages |-> "queued"]),
            !.futures = [i \in 1..num_pages |->
                            [raised |-> FALSE, page_num |-> 0, text |-> <<>>]]])
    /\ ret' = NoResult
    /\ UNCHANGED <<metadata, disk, stored, collections, polled, processing_status>>

\* extract_text: the "extracting" entry is written with the page count as
\* total (lines 132-139), then one task per page is submitted to the pool
\* (lines 141-145).
extract_text_submit(t) ==
    LET document_id == run[t].document_id
        num_pages == Len(run[t].reader)
    IN
    /\ run[t].pc = "opened"
    /\ SetStatus(document_id, StatusEntry("extracting", 0, num_pages))
    /\ SetRun(t, [run[t] EXCEPT
            !.pc = "extracting",
            !.tasks = StartQueued([i \in 1..num_pages |-> "queued"]),
            !.futures = [i \in 1..num_pages |->
                            [raised |-> FALSE, page_num |-> 0, text |-> <<>>]]])
    /\ ret' = NoResult
    /\ UNCHANGED <<metadata, disk, stored, collections>>

\* The worker finishes _extract_page_text for page i (0-based i - 1) and
\* takes the next queued task.
task_finish(t, i) ==
    /\ run[t].pc = "extracting"
    /\ i \in 1..Len(run[t].tasks)
    /\ run[t].tasks[i] = "running"
    /\ SetRun(t, [run[t] EXCEPT
            !.tasks = StartQueued([run[t].tasks EXCEPT ![i] = "done"]),
            !.futures[i] = extract_page_text(i - 1, run[t].reader[i])])
    /\ ret' = NoResult
    /\ UNCHANGED <<metadata, disk, stored, collections, polled, processing_status>>

\* Variant that appends results in completion order.
ResultSlot_Append(t, future) == run[t].completed + 1

\* The slot a result is written to.
ResultSlot(t, future) == future.page_num + 1

\* Variant that reports the page number of the finished task as progress.
ProgressValue_PageNumber(t, future) == future.page_num + 1

\* The value written to the entry's progress field.
ProgressValue(t, future) == run[t].completed + 1

\* as_completed yields a finished future: its text is placed in its slot,
\* completed is incremented and the progress field updated in place.
collect(t, i) ==
    LET document_id == run[t].document_id
        future == run[t].futures[i]
    IN
    /\ run[t].pc = "extracting"
    /\ i \in 1..Len(run[t].tasks)
    /\ run[t].tasks[i] = "done"
    /\ ~polled.locked
    /\ IF future.raised
          THEN /\ SetRun(t, [run[t] EXCEPT !.pc = "except",
                                           !.exc = "page extraction failed"])
               /\ UNCHANGED processing_status
          ELSE /\ SetRun(t, [run[t] EXCEPT
                        !.tasks[i] = "collected",
                        !.pages_text[ResultSlot(t, future)] = future.text,
                        !.completed = run[t].completed + 1])
               /\ IF document_id \in DOMAIN processing_status
                     THEN processing_status' =
                            [processing_status EXCEPT
                                ![document_id].progress = ProgressValue(t, future)]
                     ELSE UNCHANGED processing_status
    /\ ret' = NoResult
    /\ UNCHANGED <<metadata, disk, stored, collections, polled>>

\* Variant that stops waiting after the first result.
AllCollected_First(t) == Len(run[t].tasks) = 0 \/ run[t].completed >= 1

AllCollected(t) == \A i \in 1..Len(run[t].tasks) : run[t].tasks[i] = "collected"

\* Variant that announces "vectorizing" straight after extraction.
extract_text_return_skips(t) ==
    /\ run[t].pc = "extracting"
    /\ AllCollected(t)
    /\ SetStatus(run[t].document_id, StatusEntry("vectorizing", 0, 100))
    /\ SetRun(t, [run[t] EXCEPT !.pc = "chunking"])
    /\ ret' = NoResult
    /\ UNCHANGED <<metadata, disk, stored, collections>>

\* extract_text returns pages_text; process_pdf writes the "chunking" entry.
extract_text_return(t) ==
    /\ run[t].pc = "extracting"
    /\ AllCollected(t)
    /\ SetStatus(run[t].document_id, StatusEntry("chunking", 0, 100))
    /\ SetRun(t, [run[t] EXCEPT !.pc = "chunking"])
    /\ ret' = NoResult
    /\ UNCHANGED <<metadata, disk, stored, collections>>

\* chunk_documents returns; process_pdf writes the "vectorizing" entry.
chunk(t) ==
    /\ run[t].pc = "chunking"
    /\ SetStatus(run[t].document_id, StatusEntry("vectorizing", 0, 100))
    /\ SetRun(t, [run[t] EXCEPT
            !.pc = "vectorizing",
            !.chunked_docs = chunk_documents(run[t].pages_text, run[t].document_id)])
    /\ ret' = NoResult
    /\ UNCHANGED <<metadata, disk, stored, collections>>

\* The splitter raises.
chunk_fails(t) ==
    /\ run[t].pc = "chunking"
    /\ SetRun(t, [run[t] EXCEPT !.pc = "except", !.exc = "split failed"])
    /\ ret' = NoResult
    /\ UNCHANGED <<metadata, disk, stored, collections, polled, processing_status>>

\* Chroma.from_documents(documents, collection_name, persist_directory):
\* the collection of that name is fetched or created and the documents are
\* added to it under fresh ids.
from_documents(collection_name, documents) ==
    IF collection_name \in DOMAIN collections
        THEN collections[collection_name] \o documents
        ELSE documents

\* create_vector_store returns the collection.
vectorize(t) ==
    /\ run[t].pc = "vectorizing"
    /\ collections' =
            DictSet(collections, run[t].document_id,
                    from_documents(run[t].document_id, run[t].chunked_docs))
    /\ SetRun(t, [run[t] EXCEPT !.pc = "finalize"])
    /\ ret' = NoResult
    /\ UNCHANGED <<metadata, disk, stored, polled, processing_status>>

\* Chroma.from_documents raises (embedding or storage error), re-raised.
vectorize_fails(t) ==
    /\ run[t].pc = "vectorizing"
    /\ SetRun(t, [run[t] EXCEPT !.pc = "except", !.exc = "embedding failed"])
    /\ ret' = NoResult
    /\ UNCHANGED <<metadata, disk, stored, collections, polled, processing_status>>

\* Variant that stores the number of pages with chunks as num_chunks.
ProcessedRecord_CountsPages(record, chunked_docs) ==
    DictSet(DictSet(DictSet(record, "status", "processed"),
                    "processed", TRUE),
            "num_chunks",
            Cardinality({chunked_docs[k].page_number : k \in 1..Len(chunked_docs)}))

\* The record of a successful run.
ProcessedRecord(record, chunked_docs) ==
    DictSet(DictSet(DictSet(record, "status", "processed"),
                    "processed", TRUE),
            "num_chunks", Len(chunked_docs))

\* The record written by the exception handler.
ErrorRecord(record, message) ==
    DictSet(DictSet(record, "status", "error"), "error", message)

\* Success path: the record is updated in memory, then _save_metadata
\* writes the whole map, or raises into the handler.
finalize(t, save_ok) ==
    LET document_id == run[t].document_id IN
    /\ run[t].pc = "finalize"
    /\ metadata' = [metadata EXCEPT ![document_id] =
                        ProcessedRecord(metadata[document_id], run[t].chunked_docs)]
    /\ IF save_ok
          THEN /\ disk' = metadata'
               /\ SetRun(t, [run[t] EXCEPT !.pc = "clear"])
          ELSE /\ disk' = disk
               /\ SetRun(t, [run[t] EXCEPT !.pc = "except", !.exc = "save failed"])
    /\ ret' = NoResult
    /\ UNCHANGED <<stored, collections, polled, processing_status>>

\* _save_metadata is json.dump(self.metadata) with no lock: it iterates over
\* the map and over every record.  Another thread whose next statement adds
\* a key to a record (num_chunks at line 341, error at line 359) can do so
\* while the dump is under way, which then raises RuntimeError and leaves
\* metadata.json partly written.
Inserting(u) ==
    LET document_id == run[u].document_id IN
    \/ run[u].pc = "finalize" /\ "num_chunks" \notin DOMAIN metadata[document_id]
    \/ run[u].pc = "except" /\ "error" \notin DOMAIN metadata[document_id]

PartialFile == [truncated |-> TRUE]

\* Success path, the dump at line 342 overlapping another run's insertion.
finalize_races(t) ==
    LET document_id == run[t].document_id IN
    /\ run[t].pc = "finalize"
    /\ \E u \in Threads \ {t} : Inserting(u)
    /\ metadata' = [metadata EXCEPT ![document_id] =
                        ProcessedRecord(metadata[document_id], run[t].chunked_docs)]
    /\ disk' = PartialFile
    /\ SetRun(t, [run[t] EXCEPT
            !.pc = "except",
            !.exc = "dictionary changed size during iteration"])
    /\ ret' = NoResult
    /\ UNCHANGED <<stored, collections, polled, processing_status>>

\* Handler, the dump at line 360 overlapping another run's insertion: the
\* RuntimeError leaves process_pdf.
handle_exception_races(t) ==
    LET document_id == run[t].document_id IN
    /\ run[t].pc = "except"
    /\ \E u \in Threads \ {t} : Inserting(u)
    /\ metadata' = [metadata EXCEPT ![document_id] =
                        ErrorRecord(metadata[document_id], run[t].exc)]
    /\ disk' = PartialFile
    /\ Finish(t, Raised("process_pdf", document_id,
                         "dictionary changed size during iteration"))
    /\ UNCHANGED <<stored, collections, polled, processing_status>>

ProcessResult(t) ==
    [success |-> TRUE, document_id |-> run[t].document_id,
     num_pages |-> run[t].num_pages,
     num_chunks |-> Len(run[t].chunked_docs),
     message |-> "PDF processed successfully"]

\* Success path: the entry is removed and the result returned.
clear_status(t) ==
    /\ run[t].pc = "clear"
    /\ DelStatus(run[t].document_id)
    /\ Finish(t, Returned("process_pdf", run[t].document_id, ProcessResult(t)))
    /\ UNCHANGED <<metadata, disk, stored, collections>>

\* except Exception: the record is set to error and _save_metadata called;
\* when that raises the exception leaves process_pdf at once.
handle_exception(t, save_ok) ==
    LET document_id == run[t].document_id IN
    /\ run[t].pc = "except"
    /\ metadata' = [metadata EXCEPT ![document_id] =
                        ErrorRecord(metadata[document_id], run[t].exc)]
    /\ IF save_ok
          THEN /\ disk' = metadata'
               /\ SetRun(t, [run[t] EXCEPT !.pc = "clear_error"])
               /\ ret' = NoResult
          ELSE /\ disk' = disk
               /\ Finish(t, Raised("process_pdf", document_id, "save failed"))
    /\ UNCHANGED <<stored, collections, polled, processing_status>>

\* Error path: the entry is removed and the failure returned.
clear_status_error(t) ==
    /\ run[t].pc = "clear_error"
    /\ DelStatus(run[t].document_id)
    /\ Finish(t, Returned("process_pdf", run[t].document_id,
                           [success |-> FALSE, error |-> run[t].exc]))
    /\ UNCHANGED <<metadata, disk, stored, collections>>

\* --------------------------------------------------------- specifications
Busy(document_id) ==
    \E t \in Threads : InFlight(t) /\ run[t].document_id = document_id

\* A call of the tool / HTTP layer, counted against the bound.
Counted(call) == calls < MaxCalls /\ call /\ calls' = calls + 1

Upload(document_id) ==
    \E file \in SourceFiles :
        \/ upload_pdf_invalid(document_id, file)
        \/ upload_pdf_copy_fails(document_id, file)
        \/ \E save_ok \in BOOLEAN : upload_pdf_store(document_id, file, save_ok)

Call(t, document_id) ==
    \/ process_pdf_not_found(t, document_id)
    \/ process_pdf_start(t, document_id)

Step(t) ==
    \/ extract_text_open_fails(t)
    \/ extract_text_open(t)
    \/ extract_text_submit(t)
    \/ \E i \in 1..(MAX_PDF_PAGES + 1) : task_finish(t, i) \/ collect(t, i)
    \/ extract_text_return(t)
    \/ chunk(t)
    \/ chunk_fails(t)
    \/ vectorize(t)
    \/ vectorize_fails(t)
    \/ \E save_ok \in BOOLEAN : finalize(t, save_ok) \/ handle_exception(t, save_ok)
    \/ finalize_races(t)
    \/ handle_exception_races(t)
    \/ clear_status(t)
    \/ clear_status_error(t)

\* Any interleaving of the callers, overlapping calls on one document_id
\* included.
Next ==
    \/ \E d \in DocIds : Counted(Upload(d))
    \/ \E t \in Threads, d \in DocIds : Counted(Call(t, d))
    \/ \E t \in Threads : Step(t) /\ UNCHANGED calls

Spec == Init /\ [][Next]_vars

\* Calls on one document_id never overlap (one pipeline run per document at
\* a time, no upload during its run); different documents run concurrently.
NextSolo ==
    \/ \E d \in DocIds : ~Busy(d) /\ Counted(Upload(d))
    \/ \E t \in Threads, d \in DocIds : ~Busy(d) /\ Counted(Call(t, d))
    \/ \E t \in Threads : Step(t) /\ UNCHANGED calls

SpecSolo == Init /\ [][NextSolo]_vars

\* One process_pdf run on a document that an earlier session uploaded
\* (_load_metadata finds it in metadata.json), for every PDF of up to
\* MaxPages pages of any kind.
AllPdfs ==
    {Pdf(p) : p \in UNION {[1..n -> {PageText, PageThrows, PageBlank}] :
                              n \in 0..MaxPages}}

InitExtract ==
    /\ \E file \in AllPdfs :
        /\ stored = DictSet(EmptyDict, "d1", file)
        /\ metadata = DictSet(EmptyDict, "d1", UploadRecord(validate_pdf(file), "d1"))
    /\ disk = metadata
    /\ collections = EmptyDict
    /\ processing_status = EmptyDict
    /\ polled = NoPoll
    /\ run = [t \in Threads |-> IdleRun]
    /\ ret = NoResult
    /\ calls = 0

NextExtract ==
    \/ calls = 0 /\ process_pdf_start(1, "d1") /\ calls' = 1
    \/ Step(1) /\ UNCHANGED calls

SpecExtract == InitExtract /\ [][NextExtract]_vars

\* ------------------------------------------------- the read-only operations
\* list_documents: the list of records, each with its document_id added.
list_documents ==
    [list |-> {DictSet(metadata[d], "document_id", d) : d \in DOMAIN metadata}]

validate_pdf_call(file) ==
    /\ ret' = [op |-> "validate_pdf", document_id |-> "", file |-> file,
               raised |-> FALSE, value |-> validate_pdf(file)]
    /\ UNCHANGED <<metadata, disk, stored, collections, polled, processing_status, run>>

list_documents_call ==
    /\ ret' = Returned("list_documents", "", list_documents)
    /\ UNCHANGED <<metadata, disk, stored, collections, polled, processing_status, run>>

get_processing_status_call(document_id) ==
    /\ ~polled.locked
    /\ ret' = Returned("get_processing_status", document_id,
                       get_processing_status(document_id))
    /\ polled' = [held |-> TRUE,
                  live |-> document_id \in DOMAIN processing_status,
                  locked |-> FALSE,
                  document_id |-> document_id,
                  entry |-> NoValue]
    /\ UNCHANGED <<metadata, disk, stored, collections, processing_status, run>>

Query ==
    \/ \E file \in SourceFiles : validate_pdf_call(file)
    \/ list_documents_call
    \/ \E d \in DocIds : get_processing_status_call(d)

\* The five operations of the processor, calls on one document_id not
\* overlapping.
NextApi == NextSolo \/ Counted(Query)

SpecApi == Init /\ [][NextApi]_vars

\* ----------------------------------------------------- the agents (agents.py)
\* get_vector_store: Chroma(collection_name = pdf_<document_id>, ...) opens
\* the collection of that name, creating it empty when there is none, and
\* the handle is returned; None only when the constructor raises.
get_vector_store(document_id, open_ok) ==
    IF open_ok THEN [collection_name |-> document_id] ELSE NoValue

\* The documents a retriever reads through a handle.
Retrieved(vector_store) ==
    IF vector_store.collection_name \in DOMAIN collections
        THEN collections[vector_store.collection_name]
        ELSE <<>>

\* summarizer_agent, qa_agent (through _get_qa_chain) and extraction_agent:
\* "Document not processed" when get_vector_store gives None, otherwise
\* the answer of the model over the retrieved documents, or its exception
\* as the error.
agent_call(agent, document_id, open_ok, llm_ok) ==
    LET vector_store == get_vector_store(document_id, open_ok) IN
    /\ ret' = Returned(agent, document_id,
                IF vector_store = NoValue
                    THEN [success |-> FALSE, error |-> "Document not processed"]
                ELSE IF ~llm_ok
                    THEN [success |-> FALSE, error |-> "model call failed"]
                ELSE [success |-> TRUE, document_id |-> document_id,
                      num_docs |-> Len(Retrieved(vector_store))])
    /\ UNCHANGED <<metadata, disk, stored, collections, polled, processing_status, run>>

Agents == {"summarizer_agent", "qa_agent", "extraction_agent"}

AgentCall ==
    \E agent \in Agents, d \in DocIds, open_ok, llm_ok \in BOOLEAN :
        agent_call(agent, d, open_ok, llm_ok)

\* Uploads, process_pdf runs and agent requests, calls on one document_id
\* not overlapping.
NextAgents == NextSolo \/ Counted(AgentCall)

SpecAgents == Init /\ [][NextAgents]_vars

\* The HTTP server: uploads through POST /api/upload, process_pdf runs on
\* the executor threads, calls on one document_id not overlapping.
UploadBodies == ValidPdfs \cup {f \in InvalidFiles : f.exists /\ f.name = PdfName}

ApiUpload(document_id) ==
    \/ api_upload_write_fails(document_id)
    \/ \E body \in UploadBodies, save_ok \in BOOLEAN :
            api_upload(document_id, body, save_ok)

NextWeb ==
    \/ \E d \in DocIds : ~Busy(d) /\ Counted(ApiUpload(d))
    \/ \E t \in Threads, d \in DocIds : ~Busy(d) /\ Counted(Call(t, d))
    \/ \E t \in Threads : Step(t) /\ UNCHANGED calls

SpecWeb == Init /\ [][NextWeb]_vars

\* One process_pdf run on a document of an earlier session while a poller
\* (the status endpoint, the websocket loop) calls get_processing_status.
NextPoll ==
    \/ calls = 0 /\ process_pdf_start(1, "d1") /\ calls' = 1
    \/ Step(1) /\ UNCHANGED calls
    \/ get_processing_status_call("d1") /\ UNCHANGED calls

SpecPoll == InitExtract /\ [][NextPoll]_vars

\* Two documents of an earlier session and process_pdf runs on them, runs
\* on different documents overlapping.
InitPair ==
    /\ \E p1 \in PagesOfLen(1), p2 \in PagesOfLen(2) :
        /\ stored = DictSet(DictSet(EmptyDict, "d1", Pdf(p1)), "d2", Pdf(p2))
        /\ metadata =
              DictSet(DictSet(EmptyDict, "d1", UploadRecord(validate_pdf(Pdf(p1)), "d1")),
                      "d2", UploadRecord(validate_pdf(Pdf(p2)), "d2"))
    /\ disk = metadata
    /\ collections = EmptyDict
    /\ processing_status = EmptyDict
    /\ polled = NoPoll
    /\ run = [t \in Threads |-> IdleRun]
    /\ ret = NoResult
    /\ calls = 0

NextPair ==
    \/ \E t \in Threads, d \in DocIds :
            ~Busy(d) /\ Counted(process_pdf_start(t, d))
    \/ \E t \in Threads : Step(t) /\ UNCHANGED calls

SpecPair == InitPair /\ [][NextPair]_vars

\* get_processing_status in its steps: the lock is taken and the entry
\* looked up; the lock is released and the entry returned.
status_lock_enter(document_id) ==
    /\ ~polled.locked
    /\ polled' = [held |-> TRUE,
                  live |-> document_id \in DOMAIN processing_status,
                  locked |-> TRUE,
                  document_id |-> document_id,
                  entry |-> NoValue]
    /\ ret' = NoResult
    /\ UNCHANGED <<metadata, disk, stored, collections, processing_status, run>>

status_lock_exit ==
    /\ polled.locked
    /\ polled' = [polled EXCEPT !.locked = FALSE]
    /\ ret' = Returned("get_processing_status", polled.document_id, PolledValue)
    /\ UNCHANGED <<metadata, disk, stored, collections, processing_status, run>>

\* The caller reads the fields of the dict it was given (the response is
\* serialised, web_server.py lines 100 and 236).
read_entry ==
    /\ polled.held
    /\ ~polled.locked
    /\ ret' = Returned("read_entry", polled.document_id, PolledValue)
    /\ UNCHANGED <<metadata, disk, stored, collections, polled, processing_status, run>>

\* One process_pdf run and a poller, the poller's steps apart.
NextLock ==
    \/ calls = 0 /\ process_pdf_start(1, "d1") /\ calls' = 1
    \/ Step(1) /\ UNCHANGED calls
    \/ status_lock_enter("d1") /\ UNCHANGED calls
    \/ status_lock_exit /\ UNCHANGED calls
    \/ read_entry /\ UNCHANGED calls

SpecLock == InitExtract /\ [][NextLock]_vars

\* POST /api/process up to the hand-over of process_pdf to the executor:
\* 404 for an unknown id, and otherwise a run is started on a free worker of
\* the pool; nothing looks at the runs already in flight.
api_process_not_found(document_id) ==
    /\ document_id \notin DOMAIN metadata
    /\ ret' = [op |-> "api_process", document_id |-> document_id, raised |-> TRUE,
               value |-> [status_code |-> 404, detail |-> "Document not found"]]
    /\ UNCHANGED <<metadata, disk, stored, collections, polled, processing_status, run>>

api_process(t, document_id) ==
    /\ document_id \in DOMAIN metadata
    /\ process_pdf_start(t, document_id)

\* Process requests for one stored document, as they arrive.
InitRequests ==
    /\ \E pages \in PagesOfLen(1) \cup PagesOfLen(2) :
        /\ stored = DictSet(EmptyDict, "d1", Pdf(pages))
        /\ metadata =
              DictSet(EmptyDict, "d1", UploadRecord(validate_pdf(Pdf(pages)), "d1"))
    /\ disk = metadata
    /\ collections = EmptyDict
    /\ processing_status = EmptyDict
    /\ polled = NoPoll
    /\ run = [t \in Threads |-> IdleRun]
    /\ ret = NoResult
    /\ calls = 0

NextRequests ==
    \/ \E d \in DocIds : Counted(api_process_not_found(d))
    \/ \E t \in Threads : Counted(api_process(t, "d1"))
    \/ \E t \in Threads : Step(t) /\ UNCHANGED calls

SpecRequests == InitRequests /\ [][NextRequests]_vars

\* Three uploaded one-page documents, each processed once, the runs
\* overlapping in any way (three of the web server's four workers).
TrioIds == {"d1", "d2", "d3"}

InitTrio ==
    /\ stored = [d \in TrioIds |-> Pdf(<<PageText>>)]
    /\ metadata = [d \in TrioIds |-> UploadRecord(validate_pdf(Pdf(<<PageText>>)), d)]
    /\ disk = metadata
    /\ collections = EmptyDict
    /\ processing_status = EmptyDict
    /\ polled = NoPoll
    /\ run = [t \in Threads |-> IdleRun]
    /\ ret = NoResult
    /\ calls = 0

NextTrio ==
    \/ \E t \in Threads, d \in TrioIds :
            /\ ~Busy(d)
            /\ "num_chunks" \notin DOMAIN metadata[d]
            /\ "error" \notin DOMAIN metadata[d]
            /\ Counted(process_pdf_start(t, d))
    \/ \E t \in Threads : Step(t) /\ UNCHANGED calls

SpecTrio == InitTrio /\ [][NextTrio]_vars

\* chunk_documents on its own, called with any list of up to MaxPages page
\* texts: empty, whitespace-only, shorter and longer than CHUNK_SIZE, without
\* and with a space between words.
ChunkTexts ==
    {<<>>, <<" ">>, <<" ", " ">>, <<"g", "h">>, <<"b", "c", "d", "e", "f">>,
     <<"a", "b", " ", "c", "d">>}

chunk_documents_call(pages_text, document_id) ==
    /\ ret' = Returned("chunk_documents", document_id,
                       [pages_text |-> pages_text,
                        chunked_docs |-> chunk_documents(pages_text, document_id)])
    /\ UNCHANGED <<metadata, disk, stored, collections, polled, processing_status, run>>

\* One call, on any input.
NextChunk ==
    \E n \in 0..MaxPages : \E pages_text \in [1..n -> ChunkTexts], d \in DocIds :
        calls = 0 /\ chunk_documents_call(pages_text, d) /\ calls' = 1

SpecChunk == Init /\ [][NextChunk]_vars

\* GET /api/status/{document_id}: the entry of the table when there is one,
\* else the synthetic status when the record's processed flag is set, else
\* null.
Completed == StatusEntry("completed", 100, 100)

api_status(document_id) ==
    LET status == get_processing_status(document_id) IN
    /\ ~polled.locked
    /\ ret' = Returned("api_status", document_id,
            [success |-> TRUE,
             status |-> IF document_id \in DOMAIN processing_status
                            THEN status
                        ELSE IF /\ document_id \in DOMAIN metadata
                                /\ metadata[document_id].processed
                            THEN Completed
                        ELSE NoValue])
    /\ UNCHANGED <<metadata, disk, stored, collections, polled, processing_status, run>>

\* The processor's calls, not overlapping on one document_id, and the
\* status endpoint.
NextStatus ==
    \/ NextSolo
    \/ \E d \in DocIds : api_status(d) /\ UNCHANGED calls

SpecStatus == Init /\ [][NextStatus]_vars

\* One stored document, process_pdf runs on it one after another, and
\* upload_pdf calls for the same document_id at any time, a run in flight or
\* not.
NextReupload ==
    \/ Counted(process_pdf_start(1, "d1"))
    \/ Counted(Upload("d1"))
    \/ Step(1) /\ UNCHANGED calls

SpecReupload == InitRequests /\ [][NextReupload]_vars

\* validate_pdf on its own: every combination of a missing or present file,
\* a name, a parsable or broken body and 0..MAX_PDF_PAGES + 1 pages.
FileNames ==
    {PdfName, TxtName,
     <<"a", ".", "P", "D", "F">>, <<"A", ".", "P", "d", "f">>,
     <<"p", "d", "f">>, <<".", "p", "d", "f">>,
     <<"a", ".", "p", "d", "f", ".", "t", "x", "t">>, <<"a", "p", "d", "f">>}

ValidateFiles ==
    {[exists |-> e, name |-> n, parses |-> p,
      pages |-> [i \in 1..k |-> PageCycle[(i % 3) + 1]]] :
        e \in BOOLEAN, n \in FileNames, p \in BOOLEAN,
        k \in 0..(MAX_PDF_PAGES + 1)}

NextValidate ==
    \E file \in ValidateFiles : validate_pdf_call(file) /\ UNCHANGED calls

SpecValidate == Init /\ [][NextValidate]_vars

\* ------------------------------------------------------------------ claims
\* ret holds a value exactly in the state a call has just ended in, so a
\* predicate on ret is a postcondition of that call.
ProcessReturned == ret.op = "process_pdf"
ProcessFailed == ProcessReturned /\ (ret.raised \/ ~ret.value.success)
ProcessSucceeded == ProcessReturned /\ ~ret.raised /\ ret.value.success

\* What extract_text is to return for the pages of a PDF.
ExpectedText(page) == IF page.raises THEN <<>> ELSE Strip(page.text)
ExpectedPages(pages) == [i \in 1..Len(pages) |-> ExpectedText(pages[i])]

Collected(t) == {i \in 1..Len(run[t].tasks) : run[t].tasks[i] = "collected"}

\* C1: after a process_pdf call on a known document that fails, the record
\* has status = error and processed = false, whatever it was before.
C1_FailedRunLeavesErrorUnprocessed ==
    (ProcessFailed /\ ret.document_id \in DOMAIN metadata)
        => /\ metadata[ret.document_id].status = "error"
           /\ metadata[ret.document_id].processed = FALSE

\* C2: after a process_pdf call that returns success, the record has
\* status = processed, processed = true and num_chunks equal to the number
\* of chunks the chunker produced for the document's pages, which is the
\* num_chunks of the returned result.
C2_SuccessRecord ==
    ProcessSucceeded =>
        LET d == ret.document_id
            chunks == chunk_documents(ExpectedPages(stored[d].pages), d)
        IN  /\ metadata[d].status = "processed"
            /\ metadata[d].processed = TRUE
            /\ "num_chunks" \in DOMAIN metadata[d]
            /\ metadata[d].num_chunks = Len(chunks)
            /\ ret.value.num_chunks = Len(chunks)

C2_Witness ==
    /\ ProcessSucceeded
    /\ ret.value.num_chunks = 2
    /\ ret.value.num_pages = 2

\* C3: the status table has an entry for a document_id if and only if a
\* process_pdf run for that id is in flight.
C3_EntryIffInFlight ==
    \A d \in DocIds : (d \in DOMAIN processing_status) <=> Busy(d)

\* C4: process_pdf on a document_id that is not in the metadata store
\* returns {success: false, error: "Document not found"} at once and changes
\* nothing: no status entry, metadata in memory and on disk unchanged.
ProcessCalled(d) ==
    /\ calls' = calls + 1
    /\ \/ ret'.op = "process_pdf" /\ ret'.document_id = d
       \/ \E t \in Threads :
            run[t].pc = "idle" /\ run'[t].pc # "idle" /\ run'[t].document_id = d

C4_UnknownDocument ==
    [][\A d \in DocIds :
        (d \notin DOMAIN metadata /\ ProcessCalled(d)) =>
            /\ ret' = Returned("process_pdf", d,
                               [success |-> FALSE, error |-> "Document not found"])
            /\ UNCHANGED <<metadata, disk, stored, processing_status, run>>]_vars

C4_Witness ==
    /\ ProcessFailed
    /\ ~ret.raised
    /\ ret.value.error = "Document not found"
    /\ ret.document_id \notin DOMAIN metadata
    /\ metadata # EmptyDict

\* C5: process_pdf never raises; every exception is returned as
\* {success: false, error: <message>}.
C5_ProcessNeverRaises == ProcessReturned => ~ret.raised

\* C6: every value returned by validate_pdf, upload_pdf, process_pdf,
\* list_documents and get_processing_status is a dict with a boolean success
\* field, with an error string when success is false, and no call raises.
UniformShape(value) ==
    /\ "success" \in DOMAIN value
    /\ value.success \in BOOLEAN
    /\ ~value.success => "error" \in DOMAIN value

C6_UniformResults == ret # NoResult => ~ret.raised /\ UniformShape(ret.value)

\* C7: within one run the stage of the document's status entry goes
\* starting, extracting, chunking, vectorizing, one stage at a time and never
\* backward, and the record becomes processed only from the vectorizing
\* stage.
StageRank(stage) ==
    CASE stage = "starting" -> 1
      [] stage = "extracting" -> 2
      [] stage = "chunking" -> 3
      [] stage = "vectorizing" -> 4

C7_StageOrder ==
    [][\A t \in Threads :
        /\ (run[t].pc = "idle" /\ run'[t].pc # "idle")
                => /\ run'[t].document_id \in DOMAIN processing_status'
                   /\ processing_status'[run'[t].document_id].stage = "starting"
        /\ (run[t].pc # "idle" /\ run'[t].pc # "idle")
                => LET d == run[t].document_id IN
                   /\ d \in DOMAIN processing_status
                   /\ d \in DOMAIN processing_status'
                   /\ StageRank(processing_status'[d].stage)
                        - StageRank(processing_status[d].stage) \in {0, 1}
        /\ run[t].pc # "idle"
                => LET d == run[t].document_id IN
                   (metadata'[d] # metadata[d] /\ metadata'[d].status = "processed")
                        => processing_status[d].stage = "vectorizing"]_vars

C7_Witness ==
    \E t \in Threads :
        /\ run[t].pc = "clear"
        /\ metadata[run[t].document_id].status = "processed"
        /\ processing_status[run[t].document_id].stage = "vectorizing"

\* C8: extract_text on a PDF of N pages returns N elements, the i-th being
\* the text of page i, in whatever order the page tasks complete.
C8_PagesInOrder ==
    \A t \in Threads :
        run[t].pc = "chunking" => run[t].pages_text = ExpectedPages(run[t].reader)

\* Page 2 has been placed while page 1 is still being extracted.
C8_Witness ==
    \E t \in Threads :
        /\ run[t].pc = "extracting"
        /\ Len(run[t].reader) >= 2
        /\ run[t].tasks[1] = "running"
        /\ run[t].tasks[2] = "collected"
        /\ run[t].pages_text[2] # <<>>

\* C9: a page whose extraction raises yields the empty string in its slot,
\* every other page keeps its own text, there is one slot per page, and
\* neither extract_text nor the process_pdf run fails because of the page.
C9_RaisingPageIsEmpty ==
    \A t \in Threads :
        /\ run[t].exc # "page extraction failed"
        /\ run[t].pc = "extracting" =>
            /\ Len(run[t].pages_text) = Len(run[t].reader)
            /\ \A i \in Collected(t) :
                 IF run[t].reader[i].raises
                    THEN run[t].pages_text[i] = <<>>
                    ELSE run[t].pages_text[i] = Strip(run[t].reader[i].text)

C9_Witness ==
    \E t \in Threads :
        /\ run[t].pc = "vectorizing"
        /\ \E i, j \in 1..Len(run[t].reader) :
            /\ run[t].reader[i].raises
            /\ run[t].pages_text[i] = <<>>
            /\ run[t].pages_text[j] # <<>>
        /\ run[t].chunked_docs # <<>>

\* C10: in the extracting stage the entry's total is the page count and
\* fixed, progress starts at 0, never decreases, grows by one per completed
\* page task and equals the page count exactly when all have completed.
C10_Progress ==
    /\ [](\A t \in Threads :
            run[t].pc = "extracting" =>
                LET entry == processing_status[run[t].document_id] IN
                /\ entry.stage = "extracting"
                /\ entry.total = Len(run[t].reader)
                /\ entry.progress = Cardinality(Collected(t))
                /\ entry.progress <= entry.total
                /\ (entry.progress = entry.total) <=> AllCollected(t))
    /\ [][\A t \in Threads :
            LET d == run'[t].document_id IN
            /\ (run[t].pc = "opened" /\ run'[t].pc = "extracting")
                    => processing_status'[d].progress = 0
            /\ (run[t].pc = "extracting" /\ run'[t].pc = "extracting")
                    => /\ processing_status'[d].total = processing_status[d].total
                       /\ processing_status'[d].progress - processing_status[d].progress
                            = Cardinality(Collected(t)') - Cardinality(Collected(t))
                       /\ processing_status'[d].progress - processing_status[d].progress
                            \in {0, 1}]_vars

C10_Witness ==
    \E t \in Threads :
        /\ run[t].pc = "extracting"
        /\ processing_status[run[t].document_id].total = 3
        /\ processing_status[run[t].document_id].progress = 3

\* C11: once a record's status is error it stays error under process_pdf
\* calls; only an upload_pdf of that document_id moves it out of error.
UploadStored(d) ==
    /\ ret'.op = "upload_pdf"
    /\ ret'.document_id = d
    /\ metadata'[d].status = "uploaded"

C11_ErrorIsTerminal ==
    [][\A d \in DocIds :
        (d \in DOMAIN metadata /\ metadata[d].status = "error")
            => (metadata'[d].status = "error" \/ UploadStored(d))]_vars

\* C11 as amended: a record in error leaves it only by an upload_pdf of its
\* document_id (to uploaded) or by the success-path update of a process_pdf
\* run on it (to processed); a run never begins without a call.
C11_ErrorLeftByUploadOrSuccess ==
    [][/\ \A d \in DocIds :
            (d \in DOMAIN metadata /\ metadata[d].status = "error"
                /\ metadata'[d].status # "error")
                => \/ UploadStored(d)
                   \/ \E t \in Threads :
                        /\ run[t].pc = "finalize"
                        /\ run[t].document_id = d
                        /\ run'[t].pc \in {"clear", "except"}
                        /\ metadata'[d].status = "processed"
       /\ \A t \in Threads :
            (run[t].pc = "idle" /\ run'[t].pc # "idle") => calls' = calls + 1]_vars

\* A run on a record that carries the message of an earlier failure has
\* made it processed.
C11_Witness ==
    \E t \in Threads :
        /\ run[t].pc = "clear"
        /\ metadata[run[t].document_id].status = "processed"
        /\ "error" \in DOMAIN metadata[run[t].document_id]

\* C12: process_pdf on a document whose status is error is accepted, and
\* when that run succeeds the record has status = processed, processed = true
\* and no error message of the earlier failed run.
C12_SuccessOverwritesError ==
    [][\A t \in Threads :
        LET d == run[t].document_id IN
        (run[t].pc = "finalize" /\ run'[t].pc = "clear"
            /\ metadata[d].status = "error")
            => /\ metadata'[d].status = "processed"
               /\ metadata'[d].processed = TRUE
               /\ "error" \notin DOMAIN metadata'[d]]_vars

\* C13: validate_pdf returns valid = true exactly when the file exists, its
\* name ends in .pdf in any letter case, it parses and it has at most
\* MAX_PDF_PAGES pages; with more pages the error names the page count and
\* the maximum; a valid result reports every page.
NamedPdf(name) ==
    /\ Len(name) >= 4
    /\ name[Len(name) - 3] = "."
    /\ name[Len(name) - 2] \in {"p", "P"}
    /\ name[Len(name) - 1] \in {"d", "D"}
    /\ name[Len(name)] \in {"f", "F"}

C13_ValidExactlyWhen ==
    ret.op = "validate_pdf" =>
        LET file == ret.file
            result == ret.value
            readable == file.exists /\ NamedPdf(file.name) /\ file.parses
        IN  /\ result.valid <=> (readable /\ Len(file.pages) <= MAX_PDF_PAGES)
            /\ result.valid => result.num_pages = Len(file.pages)
            /\ (readable /\ Len(file.pages) > MAX_PDF_PAGES)
                    => result.error =
                        "PDF has " \o ToString(Len(file.pages))
                            \o " pages, exceeds maximum of "
                            \o ToString(MAX_PDF_PAGES)

\* A PDF of exactly MAX_PDF_PAGES pages under an upper-case extension has
\* been accepted.
C13_Witness ==
    /\ ret.op = "validate_pdf"
    /\ ret.value.valid
    /\ Len(ret.file.pages) = MAX_PDF_PAGES
    /\ ret.value.num_pages = MAX_PDF_PAGES
    /\ ret.file.name = <<"a", ".", "P", "D", "F">>

\* C14: an upload whose file fails validation changes nothing: the metadata
\* map in memory and on disk, the stored file of an existing document with
\* the same document_id and the status table are as before.
UploadRejected(d) ==
    /\ ret'.document_id = d
    /\ \/ ret'.op = "upload_pdf" /\ ~ret'.raised /\ "valid" \in DOMAIN ret'.value
       \/ /\ ret'.op = "api_upload"
          /\ ret'.raised
          /\ ret'.value.detail \notin {"cannot write upload", "save failed"}

C14_RejectedUploadNoEffect ==
    [][\A d \in DocIds :
        UploadRejected(d)
            => /\ UNCHANGED <<metadata, disk, processing_status>>
               /\ d \in DOMAIN metadata => stored'[d] = stored[d]]_vars

\* C20: after a process_pdf call has succeeded, also when it was not the
\* first to succeed for its document_id, the collection pdf_<document_id>
\* holds exactly the chunks of that run, none of earlier runs and none twice.
C20_CollectionOverwritten ==
    ProcessSucceeded =>
        LET d == ret.document_id IN
        /\ d \in DOMAIN collections
        /\ collections[d] = chunk_documents(ExpectedPages(stored[d].pages), d)

\* C15: after a successful upload_pdf the record of its document_id is the
\* fresh one, whatever record was there before: status = uploaded,
\* processed = false, no num_chunks and no error, describing the new file.
UploadSucceeded ==
    /\ ret.op = "upload_pdf"
    /\ ~ret.raised
    /\ "success" \in DOMAIN ret.value
    /\ ret.value.success

C15_UploadReplacesRecord ==
    UploadSucceeded =>
        LET d == ret.document_id IN
        /\ metadata[d].status = "uploaded"
        /\ metadata[d].processed = FALSE
        /\ DOMAIN metadata[d] =
                {"file_path", "num_pages", "file_size", "file_hash",
                 "status", "processed"}
        /\ metadata[d].num_pages = Len(stored[d].pages)
        /\ metadata[d].file_hash = stored[d].pages
        /\ disk[d] = metadata[d]

\* The upload replaced the record of a document that a run had indexed.
C15_Witness ==
    /\ UploadSucceeded
    /\ ret.document_id \in DOMAIN collections
    /\ collections[ret.document_id] # <<>>

\* C16: a record carries num_chunks only if a process_pdf run on it has
\* returned success since its latest upload.  Where the only run since the
\* upload is the one that has just ended: when that run failed, the record
\* has no num_chunks.
C16_NumChunksOnlyAfterSuccess ==
    (ProcessFailed /\ calls = 1 /\ ret.document_id \in DOMAIN metadata)
        => "num_chunks" \notin DOMAIN metadata[ret.document_id]

\* C17: every process_pdf run that has written a status entry removes it
\* before it ends, on the success path and on every error path; a run that
\* has ended has left no entry for its document_id.
C17_EndedRunLeftNoEntry ==
    (ProcessReturned /\ ret.document_id \in DOMAIN metadata)
        => ret.document_id \notin DOMAIN processing_status

\* C18: the value a poller has obtained from get_processing_status stays as
\* it was at the moment of the call: no later progress update or stage
\* change of the running pipeline changes it.
C18_PolledSnapshot ==
    [][(polled.held /\ ret'.op # "get_processing_status")
            => PolledValue' = PolledValue]_vars

\* C19: with process_pdf runs on two different document_ids overlapping,
\* each run ends as it ends alone (its result and record are those of its
\* own document, a failure is one of the failures of its own stages, its
\* status entry is gone), and no step of a run creates, changes or removes
\* the status entry or the metadata record of the other document_id.
AloneErrors == {"cannot open PDF", "split failed", "embedding failed", "save failed"}

Record(d) == IF d \in DOMAIN metadata THEN metadata[d] ELSE NoValue

RunDocument(t) ==
    IF run[t].pc = "idle" THEN run'[t].document_id ELSE run[t].document_id

C19_RunsIsolated ==
    /\ [](ProcessReturned =>
            LET d == ret.document_id
                chunks == chunk_documents(ExpectedPages(stored[d].pages), d)
            IN  IF ret.raised
                   THEN /\ ret.value.exception \in AloneErrors
                        /\ metadata[d].status = "error"
                   ELSE /\ d \notin DOMAIN processing_status
                        /\ IF ret.value.success
                              THEN /\ ret.value.num_pages = Len(stored[d].pages)
                                   /\ ret.value.num_chunks = Len(chunks)
                                   /\ metadata[d].status = "processed"
                                   /\ metadata[d].num_chunks = Len(chunks)
                              ELSE /\ ret.value.error \in AloneErrors
                                   /\ metadata[d].status = "error"
                                   /\ metadata[d].error = ret.value.error)
    /\ [][\A t \in Threads :
            run'[t] # run[t] =>
                \A e \in DocIds \ {RunDocument(t)} :
                    /\ Record(e)' = Record(e)
                    /\ get_processing_status(e)' = get_processing_status(e)]_vars

\* C21: for a document_id that is unknown, only uploaded or in error, the
\* QA, summarizer and extraction agents return
\* {success: false, error: "Document not processed"}: they decide from the
\* metadata record, not from the collection handle.
NotProcessed(d) ==
    \/ d \notin DOMAIN metadata
    \/ metadata[d].status \in {"uploaded", "error"}

C21_AgentsRefuseUnprocessed ==
    (ret.op \in Agents /\ NotProcessed(ret.document_id))
        => ret.value = [success |-> FALSE, error |-> "Document not processed"]

\* C22: the chunking stage of a run begins only after every page task of
\* its extraction has completed; no page task of a run is queued or running
\* while the run's stage is chunking or vectorizing.
PastExtraction(t) ==
    \/ run[t].pc \in {"chunking", "vectorizing", "finalize", "clear"}
    \/ /\ InFlight(t)
       /\ run[t].document_id \in DOMAIN processing_status
       /\ processing_status[run[t].document_id].stage \in {"chunking", "vectorizing"}

C22_ExtractionBarrier ==
    \A t \in Threads :
        PastExtraction(t) =>
            /\ Len(run[t].tasks) = Len(run[t].reader)
            /\ \A i \in 1..Len(run[t].tasks) :
                    run[t].tasks[i] \notin {"queued", "running", "done"}

\* Chunking has begun for a PDF of MaxPages pages.
C22_Witness ==
    \E t \in Threads :
        /\ run[t].pc = "chunking"
        /\ Len(run[t].reader) = MaxPages
        /\ processing_status[run[t].document_id].stage = "chunking"

\* C23: every write and every read of the status table, the reads a poller
\* makes of the fields of an entry it obtained included, happens under the
\* status lock: the table is not written while the poller holds the lock,
\* and the poller reads an entry the table holds only while it holds the
\* lock.
C23_AccessUnderLock ==
    [][/\ processing_status' # processing_status => ~polled.locked
       /\ (ret'.op = "read_entry" /\ polled.live) => polled.locked]_vars

\* C24: at most one process_pdf run per document_id is in flight at any
\* time.
C24_OneRunPerDocument ==
    \A t, u \in Threads :
        (t # u /\ InFlight(t) /\ InFlight(u))
            => run[t].document_id # run[u].document_id

\* C25: when the status entry of a run is removed, the document's record
\* already has the terminal status of that run (processed on the success
\* path, error on the failure path) and the metadata file holds that record.
Persisted(document_id) ==
    /\ disk # PartialFile
    /\ document_id \in DOMAIN disk
    /\ disk[document_id] = metadata[document_id]

TerminalStatus(t) == IF run[t].pc = "clear" THEN "processed" ELSE "error"

C25_TerminalBeforeRemoval ==
    [][\A t \in Threads :
            LET document_id == run[t].document_id IN
            (/\ run[t].pc \in {"clear", "clear_error"}
             /\ run'[t].pc = "idle"
             /\ document_id \in DOMAIN processing_status
             /\ document_id \notin DOMAIN processing_status')
                => /\ metadata[document_id].status = TerminalStatus(t)
                   /\ Persisted(document_id)]_vars

\* C26: each stage is announced before it is worked on: the entry with
\* that stage and progress 0 is written before process_pdf goes on
\* (starting), before the PDF is opened and before any page task is
\* submitted (extracting), before chunk_documents (chunking) and before
\* create_vector_store (vectorizing).
Announced(t, stage) ==
    LET document_id == run[t].document_id IN
    /\ document_id \in DOMAIN processing_status
    /\ processing_status[document_id].stage = stage
    /\ processing_status[document_id].progress = 0

\* The steps other than the opening of the PDF.
AnnouncedBeforeWork(t) ==
    /\ (run[t].pc = "idle" /\ run'[t].pc = "extract")
            => Announced(t, "starting")'
    /\ (run[t].tasks = <<>> /\ run'[t].tasks # <<>>)
            => Announced(t, "extracting")'
    /\ (run[t].pc = "extracting" /\ run[t].tasks # run'[t].tasks)
            => processing_status[run[t].document_id].stage = "extracting"
    /\ (run[t].pc = "chunking" /\ run'[t].pc # "chunking")
            => Announced(t, "chunking")
    /\ (run[t].pc = "vectorizing" /\ run'[t].pc # "vectorizing")
            => Announced(t, "vectorizing")

Opening(t) == run[t].pc = "extract" /\ run'[t].pc # "extract"

C26_AnnouncedBeforeOpen ==
    [][\A t \in Threads :
            /\ AnnouncedBeforeWork(t)
            /\ Opening(t) => Announced(t, "extracting")]_vars

\* C26 as amended: the extracting entry is written after the PDF has been
\* opened, which happens under the starting entry, and before any page task
\* is submitted; the other stages as stated.
C26_AnnouncedBeforeSubmit ==
    [][\A t \in Threads :
            /\ AnnouncedBeforeWork(t)
            /\ Opening(t) => Announced(t, "starting")]_vars

\* The PDF is open, its pages counted, and the entry still says starting.
C26_Witness ==
    \E t \in Threads :
        /\ run[t].pc = "opened"
        /\ Len(run[t].reader) >= 2
        /\ Announced(t, "starting")

\* C27: an entry whose stage is starting, chunking or vectorizing has
\* progress 0 in every reachable state, and its progress is not modified
\* while it is in one of those stages.
OpaqueStages == {"starting", "chunking", "vectorizing"}

C27_OnlyExtractingHasProgress ==
    /\ [](\A d \in DOMAIN processing_status :
            processing_status[d].stage \in OpaqueStages
                => processing_status[d].progress = 0)
    /\ [][\A d \in DOMAIN processing_status \cap DOMAIN processing_status' :
            (/\ processing_status[d].stage \in OpaqueStages
             /\ processing_status'[d].stage = processing_status[d].stage)
                => processing_status'[d].progress = processing_status[d].progress]_vars

\* C28: after an upload_pdf or process_pdf call has returned, with success
\* or with failure, the metadata file equals the in-memory metadata map.
C28_FileEqualsMap ==
    (ret.op \in {"upload_pdf", "process_pdf"} /\ ~ret.raised) => disk = metadata

\* C29: one extract_text call has exactly one extraction task per page,
\* task i extracting page i and being collected at most once, and never
\* more than max_workers of its tasks are executing at the same time.
Executing(t) == {i \in 1..Len(run[t].tasks) : run[t].tasks[i] = "running"}

C29_OneTaskPerPageBoundedPool ==
    \A t \in Threads :
        run[t].pc = "extracting" =>
            /\ Len(run[t].tasks) = Len(run[t].reader)
            /\ Cardinality(Executing(t)) <= max_workers
            /\ \A i \in 1..Len(run[t].tasks) :
                    run[t].tasks[i] \in {"done", "collected"}
                        => run[t].futures[i].page_num = i - 1
            /\ run[t].completed = Cardinality(Collected(t))

\* More pages than workers: the pool is full and a task waits.
C29_Witness ==
    \E t \in Threads :
        /\ run[t].pc = "extracting"
        /\ Len(run[t].tasks) > max_workers
        /\ Cardinality(Executing(t)) = max_workers
        /\ \E i \in 1..Len(run[t].tasks) : run[t].tasks[i] = "queued"

\* C30: chunk_documents produces no chunk for an empty or whitespace-only
\* page; every chunk carries the given document_id, source "pdf" and the
\* 1-based number of a non-blank page, and its text is a piece of the text
\* of that page alone.
IsPieceOf(piece, text) ==
    \E a \in 0..(Len(text) - Len(piece)) :
        SubSeq(text, a + 1, a + Len(piece)) = piece

ChunkedPages(chunked_docs) ==
    {chunked_docs[k].page_number : k \in 1..Len(chunked_docs)}

C30_ChunkProvenance ==
    ret.op = "chunk_documents" =>
        LET pages_text == ret.value.pages_text
            chunked_docs == ret.value.chunked_docs
        IN  /\ \A k \in 1..Len(chunked_docs) :
                    LET doc == chunked_docs[k] IN
                    /\ doc.document_id = ret.document_id
                    /\ doc.source = "pdf"
                    /\ doc.page_number \in 1..Len(pages_text)
                    /\ Strip(pages_text[doc.page_number]) # <<>>
                    /\ doc.page_content # <<>>
                    /\ IsPieceOf(doc.page_content, pages_text[doc.page_number])
            /\ \A i \in 1..Len(pages_text) :
                    Strip(pages_text[i]) = <<>> => i \notin ChunkedPages(chunked_docs)

\* A whitespace-only page between two pages with different texts: chunks
\* of pages 1 and 3 and none of page 2.
C30_Witness ==
    /\ ret.op = "chunk_documents"
    /\ Len(ret.value.pages_text) = 3
    /\ ret.value.pages_text[2] = <<" ", " ">>
    /\ ret.value.pages_text[1] # ret.value.pages_text[3]
    /\ ChunkedPages(ret.value.chunked_docs) = {1, 3}

\* C31: the chunks made from the pages extract_text returned are in page
\* order, and the chunks of one page are in the order of their position in
\* the text of that page of the PDF, whatever the order in which the page
\* tasks completed.
Stride == CHUNK_SIZE - CHUNK_OVERLAP

\* The position of chunk k among the chunks of its page, from 0.
RankInPage(chunked_docs, k) ==
    Cardinality({m \in 1..k :
                    chunked_docs[m].page_number = chunked_docs[k].page_number}) - 1

Chunked(t) == run[t].pc \in {"vectorizing", "finalize", "clear"}

C31_PageOrderEndToEnd ==
    \A t \in Threads :
        Chunked(t) =>
            LET chunked_docs == run[t].chunked_docs IN
            /\ \A k \in 1..(Len(chunked_docs) - 1) :
                    chunked_docs[k].page_number <= chunked_docs[k + 1].page_number
            /\ \A k \in 1..Len(chunked_docs) :
                    LET doc == chunked_docs[k]
                        offset == RankInPage(chunked_docs, k) * Stride
                    IN  /\ doc.page_number \in 1..Len(run[t].reader)
                        /\ LET text == ExpectedText(run[t].reader[doc.page_number]) IN
                            /\ offset + Len(doc.page_content) <= Len(text)
                            /\ doc.page_content =
                                    SubSeq(text, offset + 1, offset + Len(doc.page_content))

\* A blank page before two pages of text: two chunks of page 2, then two of
\* page 3.
C31_Witness ==
    \E t \in Threads :
        /\ run[t].pc = "vectorizing"
        /\ Len(run[t].chunked_docs) = 4
        /\ run[t].chunked_docs[2].page_number = 2
        /\ run[t].chunked_docs[3].page_number = 3
        /\ run[t].chunked_docs[1].page_content # run[t].chunked_docs[2].page_content

\* C32: no chunk is longer than CHUNK_SIZE characters, and any two adjacent
\* chunks of one page overlap by exactly CHUNK_OVERLAP characters.
PageChunks(chunked_docs, page_number) ==
    SelectSeq(chunked_docs, LAMBDA doc : doc.page_number = page_number)

\* Offsets at which the chunks of a page lie in its text, in ascending
\* order.
Placements(text, chunks) ==
    {o \in [1..Len(chunks) -> 0..Len(text)] :
        /\ \A k \in 1..Len(chunks) :
                /\ o[k] + Len(chunks[k].page_content) <= Len(text)
                /\ SubSeq(text, o[k] + 1, o[k] + Len(chunks[k].page_content))
                        = chunks[k].page_content
        /\ \A k \in 1..(Len(chunks) - 1) : o[k] < o[k + 1]}

\* By how much chunk k reaches into chunk k + 1 under placement o.
Overlap(chunks, o, k) == o[k] + Len(chunks[k].page_content) - o[k + 1]

NoSeparator(text) == \A i \in 1..Len(text) : text[i] # " "

C33_ProcessedIffStatus ==
    \A d \in DOMAIN metadata :
        metadata[d].processed <=> metadata[d].status = "processed"

\* C34: the status endpoint reports the synthetic completed status only
\* for a document whose record has status processed, and reports no status
\* for a document with no run in flight whose record has status error or
\* uploaded.
C34_CompletedOnlyIfProcessed ==
    (ret.op = "api_status" /\ ret.document_id \in DOMAIN metadata) =>
        LET record == metadata[ret.document_id] IN
        /\ ret.value.status = Completed => record.status = "processed"
        /\ (record.status \in {"error", "uploaded"} /\ ~Busy(ret.document_id))
                => ret.value.status = NoValue

\* C35: when upload_pdf has replaced the file of a document and stored and
\* saved its new record while a process_pdf run on it is in flight, the
\* completion of that run does not mark the newly uploaded record as
\* processed: it stays uploaded.
C35_RunDoesNotMarkNewUpload ==
    [][\A t \in Threads :
            LET document_id == run[t].document_id IN
            (/\ run[t].pc = "finalize"
             /\ run'[t].pc # "finalize"
             /\ stored[document_id].pages # run[t].reader
             /\ metadata[document_id].status = "uploaded"
             /\ Persisted(document_id))
                => metadata'[document_id].status = "uploaded"]_vars

\* C36: with process_pdf runs on one document_id overlapping in any way,
\* once all of them have ended the table has no entry for that id; an entry
\* that was removed is not created again by a progress update, only by the
\* stage write of a run still in flight.
C36_NoEntryOnceAllEnded ==
    /\ [](\A d \in DOMAIN metadata : ~Busy(d) => d \notin DOMAIN processing_status)
    /\ [][\A d \in DOMAIN processing_status' \ DOMAIN processing_status :
            /\ processing_status'[d].progress = 0
            /\ \E t \in Threads : run'[t].document_id = d]_vars

====
